---- MODULE Spec2Model ----
(***************************************************************************)
(* The per-tenant search core of the ingester                              *)
(* (modules/ingester/instance_search.go): Search, SearchTags,              *)
(* SearchTagsV2, SearchTagValues and SearchTagValuesV2 running against the *)
(* block registry (headBlock, completingBlocks, completeBlocks) guarded by *)
(* headBlockMtx and blocksMtx, next to a writer that rotates blocks.       *)
(***************************************************************************)
EXTENDS Integers, Sequences, FiniteSets, TLC

(* ------------------------------ bounds --------------------------------- *)

\* number of concurrent search requests
NReq == 2

\* number of head cuts the writer may perform
MaxRotations == 1

(* ------------------------- program constants --------------------------- *)

\* default trace-search limit when the request's limit is 0
DefaultLimit == 20

\* width of the bounded wait group of SearchTagValuesV2
PoolWidth == 20

(* ------------------------------ values --------------------------------- *)

Reqs == 1 .. NReq

\* the absent head block
Nil == 0

\* the key of the head task among the tasks of a request; the task of a
\* completing or complete block has the block's id as its key
HeadTask == 0

NoErr == [kind |-> "none", block |-> 0]

NoMetrics == [it |-> -1, ib |-> -1]

ZeroMetrics == [it |-> 0, ib |-> 0]

NoResult == [kind |-> "none"]

NoOut == [kind |-> "none"]

NoTask == [st |-> "none", role |-> "none", block |-> 0, out |-> NoOut]

SeqRange(a, b) == [i \in 1 .. (b - a + 1) |-> a + i - 1]

SeqToSet(s) == {s[i] : i \in 1 .. Len(s)}

Max(a, b) == IF a >= b THEN a ELSE b

VARIABLES
  headBlock,          \* the head block id, or Nil
  completingBlocks,   \* sequence of block ids
  completeBlocks,     \* sequence of block ids
  headBlockMtx,       \* RWMutex guarding headBlock
  blocksMtx,          \* RWMutex guarding completingBlocks and completeBlocks
  wpc,                \* position of the rotating writer
  rotations,          \* head cuts performed so far
  pc,                 \* position of each request
  op,                 \* operation each request runs
  params,             \* the request and the tenant's limits
  held,               \* locks the operation (its tasks included) holds
  lockLog,            \* lock events of the operation, in order
  cancelled,          \* whether the request context is cancelled
  anyErr,             \* the atomic error slot
  metrics,            \* aggregated SearchMetrics
  combiner,           \* trace ids held by the metadata combiner
  tasks,              \* per block: the task scheduled for it and what it returned
  todo,               \* blocks a sequential traversal has still to visit
  collector,          \* the distinct collector of a tag operation
  inspectedBlocks,    \* the inspected-block counter of a tag-value operation
  err,                \* the err variable of a sequential tag operation
  result              \* what the operation returned

regVars == <<headBlock, completingBlocks, completeBlocks>>

mtxVars == <<headBlockMtx, blocksMtx>>

writerVars == <<wpc, rotations>>

searchVars == <<cancelled, anyErr, metrics, combiner>>

tagVars == <<todo, collector, inspectedBlocks, err>>

reqVars == <<pc, op, params, held, lockLog, searchVars, tasks, tagVars, result>>

vars == <<regVars, mtxVars, writerVars, reqVars>>

(* ------------------------------ registry ------------------------------- *)

\* block ids: two initial blocks, one more per head cut
BlockIDs == 1 .. (2 + MaxRotations)

\* time window of a block's meta, in seconds
BlockMeta(b) == [BlockID |-> b, StartTime |-> 100 * b, EndTime |-> 100 * b + 100]

\* registries a tenant can be in when the requests arrive
Registries ==
  { [head |-> 1,   completing |-> << >>,  complete |-> <<2>>],
    [head |-> 1,   completing |-> <<2>>,  complete |-> << >>],
    [head |-> Nil, completing |-> << >>,  complete |-> <<2>>] }

TaskIDs == {HeadTask} \cup BlockIDs

\* the sequence of the registry a block is in
RoleOf(b) ==
  IF b \in SeqToSet(completingBlocks) THEN "completing"
  ELSE IF b \in SeqToSet(completeBlocks) THEN "complete"
  ELSE "none"

(* ------------------------- sync.RWMutex -------------------------------- *)

FreeMtx == [readers |-> 0, writer |-> FALSE, pending |-> FALSE]

\* RLock blocks while a writer holds the lock or waits for it
CanRLock(m) == ~m.writer /\ ~m.pending

RLock(m) == [m EXCEPT !.readers = @ + 1]

RUnlock(m) == [m EXCEPT !.readers = @ - 1]

\* Lock announces the writer, then waits for the readers to drain
LockBegin(m) == [m EXCEPT !.pending = TRUE]

CanLock(m) == m.pending /\ m.readers = 0 /\ ~m.writer

Lock(m) == [m EXCEPT !.pending = FALSE, !.writer = TRUE]

Unlock(m) == [m EXCEPT !.writer = FALSE]

(* ----------------------- includeBlock ---------------------------------- *)

includeBlock(b, req) ==
  IF req.start = 0 \/ req.end = 0
    THEN TRUE
    ELSE b.StartTime <= req.end /\ b.EndTime >= req.start

(* ----------------- traceql.MetadataCombiner ---------------------------- *)

NewMetadataCombiner == {}

AddMetadata(c, tr) == c \cup {tr}

Count(c) == Cardinality(c)

(* ------------------------------ Search --------------------------------- *)

maxResults(req) == IF req.limit = 0 THEN DefaultLimit ELSE req.limit

\* the loop without the check of the count after each insert
RECURSIVE addTracesNoStop(_, _, _)
addTracesNoStop(c, trs, maxR) ==
  IF trs = << >>
    THEN [combiner |-> c, cancel |-> FALSE]
    ELSE addTracesNoStop(AddMetadata(c, Head(trs)), Tail(trs), maxR)

\* the loop over resp.Traces: one trace at a time, stopping (and cancelling
\* the shared context) as soon as the combiner holds maxResults traces
RECURSIVE addTraces(_, _, _)
addTraces(c, trs, maxR) ==
  IF trs = << >>
    THEN [combiner |-> c, cancel |-> FALSE]
    ELSE LET c2 == AddMetadata(c, Head(trs))
         IN  IF Count(c2) >= maxR
               THEN [combiner |-> c2, cancel |-> TRUE]
               ELSE addTraces(c2, Tail(trs), maxR)

\* metrics are summed whenever the response carries metrics
addMetrics(m, resp) ==
  IF resp.metrics = NoMetrics
    THEN m
    ELSE [it |-> m.it + resp.metrics.it, ib |-> m.ib + resp.metrics.ib]

\* the merge with the metrics summed after the check of the count
mergeResponseMetricsLast(st, resp, maxR) ==
  IF Count(st.combiner) >= maxR
    THEN st
    ELSE LET a == addTraces(st.combiner, resp.traces, maxR)
         IN  [st EXCEPT !.metrics = addMetrics(st.metrics, resp),
                        !.combiner = a.combiner,
                        !.cancelled = st.cancelled \/ a.cancel]

\* the merge that never cancels the shared context
mergeResponseNoCancel(st, resp, maxR) ==
  LET m == addMetrics(st.metrics, resp)
  IN  IF Count(st.combiner) >= maxR
        THEN [st EXCEPT !.metrics = m]
        ELSE [st EXCEPT !.metrics = m,
                        !.combiner = addTraces(st.combiner, resp.traces, maxR).combiner]

\* the merge without the check of the count before the loop
mergeResponseNoCheck(st, resp, maxR) ==
  LET a == addTraces(st.combiner, resp.traces, maxR)
  IN  [st EXCEPT !.metrics = addMetrics(st.metrics, resp),
                 !.combiner = a.combiner,
                 !.cancelled = st.cancelled \/ a.cancel]

\* the part of the search closure that runs under resultsMtx
mergeResponse(st, resp, maxR) ==
  LET m == addMetrics(st.metrics, resp)
  IN  IF Count(st.combiner) >= maxR
        THEN [st EXCEPT !.metrics = m]
        ELSE LET a == addTraces(st.combiner, resp.traces, maxR)
             IN  [st EXCEPT !.metrics = m,
                            !.combiner = a.combiner,
                            !.cancelled = st.cancelled \/ a.cancel]

\* the search closure that logs a fatal error without storing it
searchNoLatch(st, blockID, o, maxR) ==
  IF o.kind \in {"unsupported", "canceled", "fatal", "nil"}
    THEN st
    ELSE mergeResponse(st, o, maxR)

\* the search closure of Search, applied to what the block's Searcher returned
search(st, blockID, o, maxR) ==
  CASE o.kind = "unsupported" -> st
    [] o.kind = "canceled"    -> st
    [] o.kind = "fatal"       -> [st EXCEPT !.anyErr = [kind |-> "fatal", block |-> blockID]]
    [] o.kind = "nil"         -> st
    [] OTHER                  -> mergeResponse(st, o, maxR)

\* the decision after the head block without the check of the count
headReturnsErrOnly(st, maxR) == st.anyErr # NoErr

\* after the head block: Search returns when an error is latched or the
\* combiner is full
headReturns(st, maxR) == st.anyErr # NoErr \/ Count(st.combiner) >= maxR

searchState(r) ==
  [anyErr |-> anyErr[r], metrics |-> metrics[r], combiner |-> combiner[r],
   cancelled |-> cancelled[r]]

\* a Searcher returns context.Canceled only once the context is cancelled
Possible(r, o) == o.kind = "canceled" => cancelled[r]

SearchResponse(st) == [kind |-> "resp", traces |-> st.combiner, metrics |-> st.metrics]

ErrResult(e) == [kind |-> "err", err |-> e]

(* --------------------------- collectors -------------------------------- *)

\* a byte-bounded distinct collector; every value counts one byte
NewCollector == [vals |-> {}, exceeded |-> FALSE]

Collect(c, v, limit) ==
  IF v \in c.vals THEN c
  ELSE IF limit > 0 /\ Cardinality(c.vals) + 1 > limit THEN [c EXCEPT !.exceeded = TRUE]
  ELSE [c EXCEPT !.vals = @ \cup {v}]

RECURSIVE CollectAll(_, _, _)
CollectAll(c, vs, limit) ==
  IF vs = << >> THEN c ELSE CollectAll(Collect(c, Head(vs), limit), Tail(vs), limit)

Exceeded(c) == c.exceeded

(* ------------------------------- Init ---------------------------------- *)

\* the state after construction, with the registry g
InitWith(g) ==
  /\ headBlock = g.head
  /\ completingBlocks = g.completing
  /\ completeBlocks = g.complete
  /\ headBlockMtx = FreeMtx
  /\ blocksMtx = FreeMtx
  /\ wpc = "idle"
  /\ rotations = 0
  /\ pc = [r \in Reqs |-> "idle"]
  /\ op = [r \in Reqs |-> "none"]
  /\ params = [r \in Reqs |-> [limit |-> 0]]
  /\ held = [r \in Reqs |-> {}]
  /\ lockLog = [r \in Reqs |-> << >>]
  /\ cancelled = [r \in Reqs |-> FALSE]
  /\ anyErr = [r \in Reqs |-> NoErr]
  /\ metrics = [r \in Reqs |-> ZeroMetrics]
  /\ combiner = [r \in Reqs |-> NewMetadataCombiner]
  /\ tasks = [r \in Reqs |-> [t \in TaskIDs |-> NoTask]]
  /\ todo = [r \in Reqs |-> << >>]
  /\ collector = [r \in Reqs |-> NewCollector]
  /\ inspectedBlocks = [r \in Reqs |-> 0]
  /\ err = [r \in Reqs |-> NoErr]
  /\ result = [r \in Reqs |-> NoResult]

Init == \E g \in Registries : InitWith(g)

\* a registry of one complete block, with and without a head block
InitConc ==
  \E g \in {x \in Registries : x.completing = << >>} : InitWith(g)

(* ---------------------- lock steps of a request ------------------------ *)

\* i.headBlockMtx.RLock()
AcquireHead(r) ==
  /\ pc[r] = "lockHead"
  /\ CanRLock(headBlockMtx)
  /\ headBlockMtx' = RLock(headBlockMtx)
  /\ held' = [held EXCEPT ![r] = @ \cup {"head"}]
  /\ lockLog' = [lockLog EXCEPT ![r] = Append(@, <<"acquire", "head">>)]
  /\ pc' = [pc EXCEPT ![r] = "head"]
  /\ UNCHANGED <<regVars, blocksMtx, writerVars, op, params, searchVars, tasks, tagVars, result>>

\* the caller's context is cancelled while the request is in progress
CancelCtx(r) ==
  /\ pc[r] \in {"lockHead", "head", "headErr", "lockBlocks", "blocks", "wait"}
  /\ ~cancelled[r]
  /\ cancelled' = [cancelled EXCEPT ![r] = TRUE]
  /\ UNCHANGED <<regVars, mtxVars, writerVars, pc, op, params, held, lockLog,
                 anyErr, metrics, combiner, tasks, tagVars, result>>

\* the deferred i.blocksMtx.RUnlock() of an operation that returns res
ReturnUnlockingBlocks(r, res) ==
  /\ result' = [result EXCEPT ![r] = res]
  /\ blocksMtx' = RUnlock(blocksMtx)
  /\ held' = [held EXCEPT ![r] = @ \ {"blocks"}]
  /\ lockLog' = [lockLog EXCEPT ![r] = Append(@, <<"release", "blocks">>)]
  /\ pc' = [pc EXCEPT ![r] = "returned"]

(* ------------------------------ Search --------------------------------- *)

\* Search taking blocksMtx before anything else
StartSearchBlocksFirst(r, req) ==
  /\ pc[r] = "idle"
  /\ op' = [op EXCEPT ![r] = "Search"]
  /\ params' = [params EXCEPT ![r] = req]
  /\ pc' = [pc EXCEPT ![r] = "lockBlocks"]
  /\ UNCHANGED <<regVars, mtxVars, writerVars, held, lockLog, searchVars, tasks, tagVars, result>>

StartSearch(r, req) ==
  /\ pc[r] = "idle"
  /\ op' = [op EXCEPT ![r] = "Search"]
  /\ params' = [params EXCEPT ![r] = req]
  /\ pc' = [pc EXCEPT ![r] = "lockHead"]
  /\ UNCHANGED <<regVars, mtxVars, writerVars, held, lockLog, searchVars, tasks, tagVars, result>>

\* the head block is searched synchronously, headBlockMtx is released, and the
\* operation returns when an error is latched or the combiner is full
Search_Head(r, o) ==
  /\ pc[r] = "head"
  /\ op[r] = "Search"
  /\ Possible(r, o)
  /\ IF headBlock = Nil
       THEN \* i.headBlock.BlockMeta() on a nil head block panics: the deferred
            \* cancel runs, headBlockMtx stays read-locked
            /\ pc' = [pc EXCEPT ![r] = "panicked"]
            /\ result' = [result EXCEPT ![r] = [kind |-> "panic"]]
            /\ cancelled' = [cancelled EXCEPT ![r] = TRUE]
            /\ UNCHANGED <<mtxVars, held, lockLog, anyErr, metrics, combiner, tasks>>
       ELSE LET inc == includeBlock(BlockMeta(headBlock), params[r])
                st  == IF inc
                         THEN search(searchState(r), headBlock, o, maxResults(params[r]))
                         ELSE searchState(r)
                ret == headReturns(st, maxResults(params[r]))
            IN  /\ tasks' = [tasks EXCEPT ![r][HeadTask] =
                               IF inc THEN [st |-> "done", role |-> "head",
                                            block |-> headBlock, out |-> o]
                               ELSE @]
                /\ headBlockMtx' = RUnlock(headBlockMtx)
                /\ held' = [held EXCEPT ![r] = @ \ {"head"}]
                /\ lockLog' = [lockLog EXCEPT ![r] = Append(@, <<"release", "head">>)]
                /\ anyErr' = [anyErr EXCEPT ![r] = st.anyErr]
                /\ metrics' = [metrics EXCEPT ![r] = st.metrics]
                /\ combiner' = [combiner EXCEPT ![r] = st.combiner]
                /\ cancelled' = [cancelled EXCEPT ![r] = st.cancelled \/ ret]
                /\ result' = [result EXCEPT ![r] =
                                IF st.anyErr # NoErr THEN ErrResult(st.anyErr)
                                ELSE IF ret THEN SearchResponse(st) ELSE @]
                /\ pc' = [pc EXCEPT ![r] = IF ret THEN "returned" ELSE "lockBlocks"]
                /\ UNCHANGED blocksMtx
  /\ UNCHANGED <<regVars, writerVars, op, params, tagVars>>

\* blocksMtx is read-locked and one task is started per included completing and
\* complete block
Search_AcquireBlocks(r) ==
  /\ pc[r] = "lockBlocks"
  /\ op[r] = "Search"
  /\ CanRLock(blocksMtx)
  /\ blocksMtx' = RLock(blocksMtx)
  /\ held' = [held EXCEPT ![r] = @ \cup {"blocks"}]
  /\ lockLog' = [lockLog EXCEPT ![r] = Append(@, <<"acquire", "blocks">>)]
  /\ tasks' = [tasks EXCEPT ![r] =
                 [b \in TaskIDs |->
                    IF /\ b \in SeqToSet(completingBlocks) \cup SeqToSet(completeBlocks)
                       /\ includeBlock(BlockMeta(b), params[r])
                      THEN [st |-> "sched", role |-> RoleOf(b), block |-> b, out |-> NoOut]
                      ELSE @[b]]]
  /\ pc' = [pc EXCEPT ![r] = "wait"]
  /\ UNCHANGED <<regVars, headBlockMtx, writerVars, op, params, searchVars, tagVars, result>>

\* one block task: the Searcher call, the merge under resultsMtx, wg.Done
Search_Task(r, b, o) ==
  /\ pc[r] = "wait"
  /\ op[r] = "Search"
  /\ tasks[r][b].st = "sched"
  /\ Possible(r, o)
  /\ LET st == search(searchState(r), b, o, maxResults(params[r]))
     IN  /\ anyErr' = [anyErr EXCEPT ![r] = st.anyErr]
         /\ metrics' = [metrics EXCEPT ![r] = st.metrics]
         /\ combiner' = [combiner EXCEPT ![r] = st.combiner]
         /\ cancelled' = [cancelled EXCEPT ![r] = st.cancelled]
  /\ tasks' = [tasks EXCEPT ![r][b] = [@ EXCEPT !.st = "done", !.out = o]]
  /\ UNCHANGED <<regVars, mtxVars, writerVars, pc, op, params, held, lockLog, tagVars, result>>

\* a wait that does not wait
AllDoneNoWait(r) == TRUE

AllDone(r) == \A t \in TaskIDs : tasks[r][t].st \in {"none", "done"}

\* wg.Wait() returns, the error slot decides the result, the deferred
\* blocksMtx.RUnlock() and cancel() run
Search_Return(r) ==
  /\ pc[r] = "wait"
  /\ op[r] = "Search"
  /\ AllDone(r)
  /\ ReturnUnlockingBlocks(r, IF anyErr[r] # NoErr THEN ErrResult(anyErr[r])
                               ELSE SearchResponse(searchState(r)))
  /\ cancelled' = [cancelled EXCEPT ![r] = TRUE]
  /\ UNCHANGED <<regVars, headBlockMtx, writerVars, op, params, anyErr, metrics, combiner,
                 tasks, tagVars>>

(* ------------------ SearchTags and SearchTagsV2 ------------------------ *)

ParamScopeIntrinsic == "intrinsic"

\* search.GetVirtualIntrinsicValues()
IntrinsicTags == {"duration", "name"}

AttributeScopeFromString(scope) ==
  CASE scope = ""         -> "none"
    [] scope = "span"     -> "span"
    [] scope = "resource" -> "resource"
    [] OTHER              -> "unknown"

WrapErr(kind, blockID) == [kind |-> kind, block |-> blockID]

\* the searchBlock closure of SearchTagsV2: the native SearchTags when the query
\* is empty (ErrUnsupported tolerated), the evaluator's ExecuteTagNames otherwise
searchBlock(st, s, o, req) ==
  IF s = Nil \/ Exceeded(st.collector)
    THEN [st EXCEPT !.err = NoErr, !.invoked = FALSE]
    ELSE LET c == CollectAll(st.collector, o.vals, req.maxBytes)
         IN  IF req.emptyQuery
               THEN [st EXCEPT !.collector = c, !.invoked = TRUE,
                               !.err = IF o.kind \notin {"ok", "unsupported"}
                                         THEN WrapErr(o.kind, s) ELSE NoErr]
               ELSE [st EXCEPT !.collector = c, !.invoked = TRUE,
                               !.err = IF o.kind # "ok" THEN WrapErr(o.kind, s) ELSE NoErr]

\* the scopes of the SearchTagsV2 response
V2Scopes(c, attributeScope) ==
  { [name |-> n, tags |-> {v[2] : v \in {w \in c.vals : w[1] = n}}] :
      n \in {v[1] : v \in c.vals} }
  \cup (IF attributeScope = "none"
          THEN {[name |-> ParamScopeIntrinsic, tags |-> IntrinsicTags]}
          ELSE {})

\* the flattening that keeps every scope
flattenKeepAll(scope, scopes) == UNION { x.tags : x \in scopes }

\* SearchTags flattens the scopes of the v2 response
flatten(scope, scopes) ==
  UNION { x.tags : x \in {y \in scopes : ~(scope = "" /\ y.name = ParamScopeIntrinsic)} }

TagsResponse(o, scope, scopes) ==
  IF o = "SearchTags"
    THEN [kind |-> "resp", tagNames |-> flatten(scope, scopes)]
    ELSE [kind |-> "resp", scopes |-> scopes]

TagsEntry(r, o, req) ==
  /\ pc[r] = "idle"
  /\ op' = [op EXCEPT ![r] = o]
  /\ params' = [params EXCEPT ![r] = req]
  /\ IF ~req.hasOrg
       THEN /\ pc' = [pc EXCEPT ![r] = "returned"]
            /\ result' = [result EXCEPT ![r] = ErrResult(WrapErr("noOrgID", 0))]
       ELSE IF req.scope = ParamScopeIntrinsic
       THEN /\ pc' = [pc EXCEPT ![r] = "returned"]
            /\ result' = [result EXCEPT ![r] =
                 TagsResponse(o, req.scope,
                              {[name |-> ParamScopeIntrinsic, tags |-> IntrinsicTags]})]
       ELSE IF AttributeScopeFromString(req.scope) = "unknown"
       THEN /\ pc' = [pc EXCEPT ![r] = "returned"]
            /\ result' = [result EXCEPT ![r] = ErrResult(WrapErr("unknownScope", 0))]
       ELSE /\ pc' = [pc EXCEPT ![r] = "lockHead"]
            /\ UNCHANGED result
  /\ UNCHANGED <<regVars, mtxVars, writerVars, held, lockLog, searchVars, tasks, tagVars>>

StartSearchTagsV2(r, req) == TagsEntry(r, "SearchTagsV2", req)

\* SearchTags calls SearchTagsV2 with the scope alone: the query is empty
StartSearchTags(r, req) ==
  /\ req.emptyQuery
  /\ TagsEntry(r, "SearchTags", req)

(* --------------------------- SearchTagValues --------------------------- *)

maxBlocksOf(req) == IF req.maxBlocksLimit > 0 THEN req.maxBlocksLimit ELSE 0

\* the search closure of SearchTagValues
searchTagValues(st, s, o, req) ==
  IF \/ (maxBlocksOf(req) > 0 /\ st.inspectedBlocks >= maxBlocksOf(req))
     \/ s = Nil
     \/ Exceeded(st.collector)
    THEN [st EXCEPT !.err = NoErr, !.invoked = FALSE]
    ELSE [st EXCEPT !.inspectedBlocks = @ + 1,
                    !.invoked = TRUE,
                    !.collector = CollectAll(@, o.vals, req.maxBytes),
                    !.err = IF o.kind \notin {"ok", "unsupported"}
                              THEN WrapErr(o.kind, s) ELSE NoErr]

StartSearchTagValues(r, req) ==
  /\ pc[r] = "idle"
  /\ op' = [op EXCEPT ![r] = "SearchTagValues"]
  /\ params' = [params EXCEPT ![r] = req]
  /\ IF ~req.hasOrg
       THEN /\ pc' = [pc EXCEPT ![r] = "returned"]
            /\ result' = [result EXCEPT ![r] = ErrResult(WrapErr("noOrgID", 0))]
       ELSE /\ pc' = [pc EXCEPT ![r] = "lockHead"]
            /\ UNCHANGED result
  /\ UNCHANGED <<regVars, mtxVars, writerVars, held, lockLog, searchVars, tasks, tagVars>>

(* ------------- the sequential traversal of both operations ------------- *)

SeqOps == {"SearchTags", "SearchTagsV2", "SearchTagValues"}

seqState(r) ==
  [collector |-> collector[r], inspectedBlocks |-> inspectedBlocks[r],
   err |-> NoErr, invoked |-> FALSE]

seqSearch(r, s, o) ==
  IF op[r] = "SearchTagValues"
    THEN searchTagValues(seqState(r), s, o, params[r])
    ELSE searchBlock(seqState(r), s, o, params[r])

\* what the callee of the closure may return: the evaluator's treatment of a
\* fetcher's ErrUnsupported is not part of this file and is left out
CalleeReturns(r, o) ==
  /\ Possible(r, o)
  /\ (op[r] = "SearchTagsV2" /\ ~params[r].emptyQuery) => o.kind # "unsupported"

SeqResponse(r, c) ==
  IF op[r] = "SearchTagValues"
    THEN [kind |-> "resp", tagValues |-> c.vals]
    ELSE TagsResponse(op[r], params[r].scope,
                      V2Scopes(c, AttributeScopeFromString(params[r].scope)))

TaskOf(role, b, invoked, o) ==
  [st |-> "done", role |-> role, block |-> b,
   out |-> IF invoked THEN o ELSE [kind |-> "skipped"]]

\* the head block is searched and headBlockMtx is released
Seq_Head(r, o) ==
  /\ pc[r] = "head"
  /\ op[r] \in SeqOps
  /\ CalleeReturns(r, o)
  /\ LET st == seqSearch(r, headBlock, o)
     IN  /\ collector' = [collector EXCEPT ![r] = st.collector]
         /\ inspectedBlocks' = [inspectedBlocks EXCEPT ![r] = st.inspectedBlocks]
         /\ err' = [err EXCEPT ![r] = st.err]
         /\ tasks' = [tasks EXCEPT ![r][HeadTask] = TaskOf("head", headBlock, st.invoked, o)]
         /\ pc' = [pc EXCEPT ![r] = IF st.err # NoErr THEN "headErr" ELSE "lockBlocks"]
  /\ headBlockMtx' = RUnlock(headBlockMtx)
  /\ held' = [held EXCEPT ![r] = @ \ {"head"}]
  /\ lockLog' = [lockLog EXCEPT ![r] = Append(@, <<"release", "head">>)]
  /\ UNCHANGED <<regVars, blocksMtx, writerVars, op, params, searchVars, todo, result>>

\* the error of the head block is returned with i.headBlock.BlockMeta().BlockID,
\* read after headBlockMtx was released
Seq_HeadErr(r) ==
  /\ pc[r] = "headErr"
  /\ result' = [result EXCEPT ![r] = ErrResult(WrapErr(err[r].kind, headBlock))]
  /\ pc' = [pc EXCEPT ![r] = "returned"]
  /\ UNCHANGED <<regVars, mtxVars, writerVars, op, params, held, lockLog, searchVars,
                 tasks, tagVars>>

Seq_AcquireBlocks(r) ==
  /\ pc[r] = "lockBlocks"
  /\ op[r] \in SeqOps
  /\ CanRLock(blocksMtx)
  /\ blocksMtx' = RLock(blocksMtx)
  /\ held' = [held EXCEPT ![r] = @ \cup {"blocks"}]
  /\ lockLog' = [lockLog EXCEPT ![r] = Append(@, <<"acquire", "blocks">>)]
  /\ todo' = [todo EXCEPT ![r] = completingBlocks \o completeBlocks]
  /\ pc' = [pc EXCEPT ![r] = "blocks"]
  /\ UNCHANGED <<regVars, headBlockMtx, writerVars, op, params, searchVars, tasks,
                 collector, inspectedBlocks, err, result>>

\* the traversal going on after an error
Seq_BlockNoStop(r, o) ==
  /\ pc[r] = "blocks"
  /\ op[r] \in SeqOps
  /\ todo[r] # << >>
  /\ CalleeReturns(r, o)
  /\ LET b  == Head(todo[r])
         st == seqSearch(r, b, o)
     IN  /\ collector' = [collector EXCEPT ![r] = st.collector]
         /\ inspectedBlocks' = [inspectedBlocks EXCEPT ![r] = st.inspectedBlocks]
         /\ err' = [err EXCEPT ![r] = st.err]
         /\ tasks' = [tasks EXCEPT ![r][b] = TaskOf(RoleOf(b), b, st.invoked, o)]
         /\ todo' = [todo EXCEPT ![r] = Tail(@)]
  /\ UNCHANGED <<regVars, mtxVars, writerVars, op, params, held, lockLog, pc, result,
                 searchVars>>

\* the next block of completingBlocks, then of completeBlocks, is searched; an
\* error ends the traversal and the operation
Seq_Block(r, o) ==
  /\ pc[r] = "blocks"
  /\ op[r] \in SeqOps
  /\ todo[r] # << >>
  /\ CalleeReturns(r, o)
  /\ LET b  == Head(todo[r])
         st == seqSearch(r, b, o)
     IN  /\ collector' = [collector EXCEPT ![r] = st.collector]
         /\ inspectedBlocks' = [inspectedBlocks EXCEPT ![r] = st.inspectedBlocks]
         /\ err' = [err EXCEPT ![r] = st.err]
         /\ tasks' = [tasks EXCEPT ![r][b] = TaskOf(RoleOf(b), b, st.invoked, o)]
         /\ IF st.err # NoErr
              THEN /\ ReturnUnlockingBlocks(r, ErrResult(st.err))
                   /\ UNCHANGED todo
              ELSE /\ todo' = [todo EXCEPT ![r] = Tail(@)]
                   /\ UNCHANGED <<blocksMtx, held, lockLog, pc, result>>
  /\ UNCHANGED <<regVars, headBlockMtx, writerVars, op, params, searchVars>>

Seq_Return(r) ==
  /\ pc[r] = "blocks"
  /\ op[r] \in SeqOps
  /\ todo[r] = << >>
  /\ ReturnUnlockingBlocks(r, SeqResponse(r, collector[r]))
  /\ UNCHANGED <<regVars, headBlockMtx, writerVars, op, params, searchVars, tasks, tagVars>>

(* -------------------------- SearchTagValuesV2 -------------------------- *)

IntrinsicIDs == {"trace:id", "span:id", "link:traceID", "link:spanID"}

\* traceql.ParseIdentifier
ParseIdentifier(tagName) ==
  IF tagName = "{" THEN [tag |-> "", err |-> WrapErr("parse", 0)]
  ELSE [tag |-> tagName, err |-> NoErr]

\* SearchTagValuesV2 without the check of the ID intrinsics
StartSearchTagValuesV2NoIDCheck(r, req) ==
  /\ pc[r] = "idle"
  /\ op' = [op EXCEPT ![r] = "SearchTagValuesV2"]
  /\ params' = [params EXCEPT ![r] = req]
  /\ IF ~req.hasOrg
       THEN /\ pc' = [pc EXCEPT ![r] = "returned"]
            /\ result' = [result EXCEPT ![r] = ErrResult(WrapErr("noOrgID", 0))]
       ELSE IF ParseIdentifier(req.tagName).err # NoErr
       THEN /\ pc' = [pc EXCEPT ![r] = "returned"]
            /\ result' = [result EXCEPT ![r] = ErrResult(ParseIdentifier(req.tagName).err)]
       ELSE /\ pc' = [pc EXCEPT ![r] = "lockHead"]
            /\ UNCHANGED result
  /\ UNCHANGED <<regVars, mtxVars, writerVars, held, lockLog, searchVars, tasks, tagVars>>

StartSearchTagValuesV2(r, req) ==
  /\ pc[r] = "idle"
  /\ op' = [op EXCEPT ![r] = "SearchTagValuesV2"]
  /\ params' = [params EXCEPT ![r] = req]
  /\ IF ~req.hasOrg
       THEN /\ pc' = [pc EXCEPT ![r] = "returned"]
            /\ result' = [result EXCEPT ![r] = ErrResult(WrapErr("noOrgID", 0))]
       ELSE IF ParseIdentifier(req.tagName).err # NoErr
       THEN /\ pc' = [pc EXCEPT ![r] = "returned"]
            /\ result' = [result EXCEPT ![r] = ErrResult(ParseIdentifier(req.tagName).err)]
       ELSE IF ParseIdentifier(req.tagName).tag \in IntrinsicIDs
       THEN /\ pc' = [pc EXCEPT ![r] = "returned"]
            /\ result' = [result EXCEPT ![r] = [kind |-> "resp", tagValues |-> {}]]
       ELSE /\ pc' = [pc EXCEPT ![r] = "lockHead"]
            /\ UNCHANGED result
  /\ UNCHANGED <<regVars, mtxVars, writerVars, held, lockLog, searchVars, tasks, tagVars>>

InFlight(r) == Cardinality({t \in TaskIDs : tasks[r][t].st \in {"sched", "running"}})

\* with headBlockMtx read-locked: when there is a head block, its task is
\* started; the task, not the caller, releases headBlockMtx
V2_Head(r) ==
  /\ pc[r] = "head"
  /\ op[r] = "SearchTagValuesV2"
  /\ InFlight(r) < PoolWidth
  /\ tasks' = [tasks EXCEPT ![r][HeadTask] =
                 IF headBlock # Nil
                   THEN [st |-> "sched", role |-> "head", block |-> headBlock, out |-> NoOut]
                   ELSE @]
  /\ pc' = [pc EXCEPT ![r] = "lockBlocks"]
  /\ UNCHANGED <<regVars, mtxVars, writerVars, op, params, held, lockLog, searchVars,
                 tagVars, result>>

\* blocksMtx is read-locked and one task is started per complete and completing
\* block
V2_AcquireBlocks(r) ==
  /\ pc[r] = "lockBlocks"
  /\ op[r] = "SearchTagValuesV2"
  /\ CanRLock(blocksMtx)
  /\ InFlight(r) + Len(completeBlocks) + Len(completingBlocks) <= PoolWidth
  /\ blocksMtx' = RLock(blocksMtx)
  /\ held' = [held EXCEPT ![r] = @ \cup {"blocks"}]
  /\ lockLog' = [lockLog EXCEPT ![r] = Append(@, <<"acquire", "blocks">>)]
  /\ tasks' = [tasks EXCEPT ![r] =
                 [t \in TaskIDs |->
                    IF t \in SeqToSet(completeBlocks) \cup SeqToSet(completingBlocks)
                      THEN [st |-> "sched", role |-> RoleOf(t), block |-> t, out |-> NoOut]
                      ELSE @[t]]]
  /\ pc' = [pc EXCEPT ![r] = "wait"]
  /\ UNCHANGED <<regVars, headBlockMtx, writerVars, op, params, searchVars, tagVars, result>>

\* the checks of a task without the inspected-block counter
V2_TaskBeginNoCap(r, t) ==
  /\ op[r] = "SearchTagValuesV2"
  /\ tasks[r][t].st = "sched"
  /\ tasks' = [tasks EXCEPT ![r][t] =
                 IF anyErr[r] # NoErr
                   THEN [@ EXCEPT !.st = "done", !.out = [kind |-> "skipped"]]
                   ELSE [@ EXCEPT !.st = "running"]]
  /\ UNCHANGED <<regVars, mtxVars, writerVars, pc, op, params, held, lockLog, searchVars,
                 tagVars, result>>

\* the checks a task makes before it calls the Searcher: the error slot, then
\* the atomic inspected-block counter
V2_TaskBegin(r, t) ==
  /\ op[r] = "SearchTagValuesV2"
  /\ tasks[r][t].st = "sched"
  /\ IF anyErr[r] # NoErr
       THEN /\ tasks' = [tasks EXCEPT ![r][t] =
                           [@ EXCEPT !.st = "done", !.out = [kind |-> "skipped"]]]
            /\ UNCHANGED inspectedBlocks
       ELSE IF maxBlocksOf(params[r]) > 0
       THEN /\ inspectedBlocks' = [inspectedBlocks EXCEPT ![r] = @ + 1]
            /\ tasks' = [tasks EXCEPT ![r][t] =
                           IF inspectedBlocks[r] + 1 > maxBlocksOf(params[r])
                             THEN [@ EXCEPT !.st = "done", !.out = [kind |-> "skipped"]]
                             ELSE [@ EXCEPT !.st = "running"]]
       ELSE /\ tasks' = [tasks EXCEPT ![r][t] = [@ EXCEPT !.st = "running"]]
            /\ UNCHANGED inspectedBlocks
  /\ UNCHANGED <<regVars, mtxVars, writerVars, pc, op, params, held, lockLog, searchVars,
                 todo, collector, err, result>>

\* a task that stores its error, nil included, in the error slot
V2_TaskEndClear(r, t, o) ==
  /\ op[r] = "SearchTagValuesV2"
  /\ tasks[r][t].st = "running"
  /\ Possible(r, o)
  /\ collector' = [collector EXCEPT ![r] = CollectAll(@, o.vals, params[r].maxBytes)]
  /\ anyErr' = [anyErr EXCEPT ![r] =
                  IF o.kind # "ok" THEN WrapErr(o.kind, tasks[r][t].block) ELSE NoErr]
  /\ tasks' = [tasks EXCEPT ![r][t] = [@ EXCEPT !.st = "done", !.out = o]]
  /\ UNCHANGED <<regVars, mtxVars, writerVars, pc, op, params, held, lockLog, cancelled,
                 metrics, combiner, todo, inspectedBlocks, err, result>>

\* the Searcher (or the evaluator) returns: its values are collected, any error
\* is stored in the error slot with the block id, wg.Done() is called
V2_TaskEnd(r, t, o) ==
  /\ op[r] = "SearchTagValuesV2"
  /\ tasks[r][t].st = "running"
  /\ Possible(r, o)
  /\ collector' = [collector EXCEPT ![r] = CollectAll(@, o.vals, params[r].maxBytes)]
  /\ anyErr' = [anyErr EXCEPT ![r] =
                  IF o.kind # "ok" THEN WrapErr(o.kind, tasks[r][t].block) ELSE @]
  /\ tasks' = [tasks EXCEPT ![r][t] = [@ EXCEPT !.st = "done", !.out = o]]
  /\ UNCHANGED <<regVars, mtxVars, writerVars, pc, op, params, held, lockLog, cancelled,
                 metrics, combiner, todo, inspectedBlocks, err, result>>

\* the head task releasing headBlockMtx before it has run
V2_HeadUnlockEarly(r) ==
  /\ op[r] = "SearchTagValuesV2"
  /\ tasks[r][HeadTask].st \in {"sched", "running", "done"}
  /\ "head" \in held[r]
  /\ headBlockMtx' = RUnlock(headBlockMtx)
  /\ held' = [held EXCEPT ![r] = @ \ {"head"}]
  /\ lockLog' = [lockLog EXCEPT ![r] = Append(@, <<"release", "head">>)]
  /\ UNCHANGED <<regVars, blocksMtx, writerVars, pc, op, params, searchVars, tasks,
                 tagVars, result>>

\* the deferred i.headBlockMtx.RUnlock() of the head task, which runs after its
\* deferred wg.Done()
V2_HeadUnlock(r) ==
  /\ op[r] = "SearchTagValuesV2"
  /\ tasks[r][HeadTask].st = "done"
  /\ "head" \in held[r]
  /\ headBlockMtx' = RUnlock(headBlockMtx)
  /\ held' = [held EXCEPT ![r] = @ \ {"head"}]
  /\ lockLog' = [lockLog EXCEPT ![r] = Append(@, <<"release", "head">>)]
  /\ UNCHANGED <<regVars, blocksMtx, writerVars, pc, op, params, searchVars, tasks,
                 tagVars, result>>

\* SearchTagValuesV2 returning without wg.Wait()
V2_ReturnNoWait(r) ==
  /\ pc[r] = "wait"
  /\ op[r] = "SearchTagValuesV2"
  /\ ReturnUnlockingBlocks(r, IF anyErr[r] # NoErr THEN ErrResult(anyErr[r])
                               ELSE [kind |-> "resp", tagValues |-> collector[r].vals])
  /\ UNCHANGED <<regVars, headBlockMtx, writerVars, op, params, searchVars, tasks, tagVars>>

\* wg.Wait() returns, the error slot decides the result, the deferred
\* blocksMtx.RUnlock() runs
V2_Return(r) ==
  /\ pc[r] = "wait"
  /\ op[r] = "SearchTagValuesV2"
  /\ AllDone(r)
  /\ ReturnUnlockingBlocks(r, IF anyErr[r] # NoErr THEN ErrResult(anyErr[r])
                               ELSE [kind |-> "resp", tagValues |-> collector[r].vals])
  /\ UNCHANGED <<regVars, headBlockMtx, writerVars, op, params, searchVars, tasks, tagVars>>

(* ------------------------- the rotating writer ------------------------- *)

\* a head cut starts: the writer asks for headBlockMtx in exclusive mode
CutBegin ==
  /\ wpc = "idle"
  /\ rotations < MaxRotations
  /\ headBlockMtx' = LockBegin(headBlockMtx)
  /\ wpc' = "lockHead"
  /\ UNCHANGED <<regVars, blocksMtx, rotations, reqVars>>

\* ... obtains it, and asks for blocksMtx in exclusive mode
CutLockHead ==
  /\ wpc = "lockHead"
  /\ CanLock(headBlockMtx)
  /\ headBlockMtx' = Lock(headBlockMtx)
  /\ blocksMtx' = LockBegin(blocksMtx)
  /\ wpc' = "lockBlocks"
  /\ UNCHANGED <<regVars, rotations, reqVars>>

\* ... obtains it, moves the head block to completingBlocks, installs a new
\* head block and releases both locks
CutHead ==
  /\ wpc = "lockBlocks"
  /\ CanLock(blocksMtx)
  /\ completingBlocks' = IF headBlock = Nil THEN completingBlocks
                         ELSE Append(completingBlocks, headBlock)
  /\ headBlock' = 3 + rotations
  /\ rotations' = rotations + 1
  /\ blocksMtx' = Unlock(Lock(blocksMtx))
  /\ headBlockMtx' = Unlock(headBlockMtx)
  /\ wpc' = "idle"
  /\ UNCHANGED <<completeBlocks, reqVars>>

\* a completing block is ready: the writer asks for blocksMtx in exclusive mode
CompleteBegin ==
  /\ wpc = "idle"
  /\ completingBlocks # << >>
  /\ blocksMtx' = LockBegin(blocksMtx)
  /\ wpc' = "lockComplete"
  /\ UNCHANGED <<regVars, headBlockMtx, rotations, reqVars>>

\* ... obtains it and moves the block to completeBlocks
Complete ==
  /\ wpc = "lockComplete"
  /\ CanLock(blocksMtx)
  /\ completeBlocks' = Append(completeBlocks, Head(completingBlocks))
  /\ completingBlocks' = Tail(completingBlocks)
  /\ blocksMtx' = Unlock(Lock(blocksMtx))
  /\ wpc' = "idle"
  /\ UNCHANGED <<headBlock, headBlockMtx, rotations, reqVars>>

(* ------------------------------ inputs --------------------------------- *)

Unsupported == [kind |-> "unsupported"]

Canceled == [kind |-> "canceled"]

Fatal == [kind |-> "fatal"]

NilResponse == [kind |-> "nil"]

Response(trs, m) == [kind |-> "ok", traces |-> trs, metrics |-> m]

\* what a block's Searcher may return to Search
SearchOutcomes ==
  { Unsupported, Canceled, Fatal, NilResponse,
    Response(<<1, 2, 3>>, [it |-> 3, ib |-> 30]),
    Response(<<3, 4>>, [it |-> 2, ib |-> 20]),
    Response(SeqRange(1, 25), [it |-> 25, ib |-> 250]),
    Response(<<5>>, NoMetrics),
    Response(<< >>, [it |-> 7, ib |-> 70]) }

SearchRequests ==
  { [limit |-> l, start |-> w[1], end |-> w[2]] :
      l \in {0, 2}, w \in {<<0, 0>>, <<150, 250>>} }

Values(vs) == [kind |-> "ok", vals |-> vs]

\* the scopes a caller may ask for
Scopes == {"", "span", ParamScopeIntrinsic, "bogus"}

\* what a block's SearchTags (or the evaluator) may return: tags with their scope
TagsOutcomes(scope) ==
  { [kind |-> k, vals |-> << >>] : k \in {"unsupported", "canceled", "fatal"} }
  \cup { Values(vs) : vs \in
           IF scope = "" THEN { <<<<"span", "a">>>>, <<<<"resource", "name">>, <<"span", "a">>>> }
           ELSE { <<<<scope, "a">>>>, <<<<scope, "name">>, <<scope, "a">>>> } }

TagsRequests ==
  { [scope |-> "", emptyQuery |-> TRUE, hasOrg |-> FALSE, maxBytes |-> 0] }
  \cup { [scope |-> sc, emptyQuery |-> q, hasOrg |-> TRUE, maxBytes |-> mb] :
           sc \in Scopes, q \in BOOLEAN, mb \in {0, 1} }

\* what a block's SearchTagValues or SearchTagValuesV2 (or the evaluator) may
\* return
ValuesOutcomes ==
  { [kind |-> k, vals |-> << >>] : k \in {"unsupported", "canceled", "fatal"} }
  \cup { Values(<<"x">>), Values(<<"y", "x">>) }

TagValuesRequests ==
  { [tagName |-> ".foo", hasOrg |-> FALSE, maxBytes |-> 0, maxBlocksLimit |-> 0] }
  \cup { [tagName |-> ".foo", hasOrg |-> TRUE, maxBytes |-> l[1], maxBlocksLimit |-> l[2]] :
           l \in {<<0, 0>>, <<1, 0>>, <<0, 1>>} }

TagValuesV2Requests ==
  TagValuesRequests
  \cup { [tagName |-> tn, hasOrg |-> TRUE, maxBytes |-> 0, maxBlocksLimit |-> 0] :
           tn \in IntrinsicIDs \cup {"{"} }

\* the inputs of the requests: what they ask and what the Searchers answer
Inputs ==
  [search |-> SearchRequests, searchOut |-> SearchOutcomes,
   tags |-> TagsRequests, tagsOut |-> [sc \in Scopes |-> TagsOutcomes(sc)],
   tagValues |-> TagValuesRequests, tagValuesV2 |-> TagValuesV2Requests,
   valuesOut |-> ValuesOutcomes]

\* fewer inputs, for requests that run side by side
FewInputs ==
  [search |-> {[limit |-> 2, start |-> 0, end |-> 0]},
   searchOut |-> {Unsupported, Fatal},
   tags |-> {[scope |-> "", emptyQuery |-> TRUE, hasOrg |-> TRUE, maxBytes |-> 0]},
   tagsOut |-> [sc \in Scopes |->
                  {[kind |-> "fatal", vals |-> << >>], Values(<<<<"span", "a">>>>)}],
   tagValues |-> {[tagName |-> ".foo", hasOrg |-> TRUE, maxBytes |-> 0, maxBlocksLimit |-> 0]},
   tagValuesV2 |-> {[tagName |-> ".foo", hasOrg |-> TRUE, maxBytes |-> 0, maxBlocksLimit |-> 0]},
   valuesOut |-> {[kind |-> "fatal", vals |-> << >>], Values(<<"x">>)}]

\* what the callee of a sequential operation's closure may return
SeqOutcomes(r, in) ==
  IF op[r] = "SearchTagValues" THEN in.valuesOut
  ELSE IF op[r] \in {"SearchTags", "SearchTagsV2"} THEN in.tagsOut[params[r].scope]
  ELSE {}

(* ------------------------------- Next ---------------------------------- *)

Single == {1}

\* the steps of the requests R with the inputs in, and of the writer
Step(R, in) ==
  \/ \E r \in R, req \in in.search : StartSearch(r, req)
  \/ \E r \in R, req \in in.tags : StartSearchTags(r, req)
  \/ \E r \in R, req \in in.tags : StartSearchTagsV2(r, req)
  \/ \E r \in R, req \in in.tagValues : StartSearchTagValues(r, req)
  \/ \E r \in R, req \in in.tagValuesV2 : StartSearchTagValuesV2(r, req)
  \/ \E r \in R : AcquireHead(r)
  \/ \E r \in R : CancelCtx(r)
  \/ \E r \in R, o \in in.searchOut : Search_Head(r, o)
  \/ \E r \in R : Search_AcquireBlocks(r)
  \/ \E r \in R, b \in BlockIDs, o \in in.searchOut : Search_Task(r, b, o)
  \/ \E r \in R : Search_Return(r)
  \/ \E r \in R : \E o \in SeqOutcomes(r, in) : Seq_Head(r, o)
  \/ \E r \in R : Seq_HeadErr(r)
  \/ \E r \in R : Seq_AcquireBlocks(r)
  \/ \E r \in R : \E o \in SeqOutcomes(r, in) : Seq_Block(r, o)
  \/ \E r \in R : Seq_Return(r)
  \/ \E r \in R : V2_Head(r)
  \/ \E r \in R : V2_AcquireBlocks(r)
  \/ \E r \in R, t \in TaskIDs : V2_TaskBegin(r, t)
  \/ \E r \in R, t \in TaskIDs, o \in in.valuesOut : V2_TaskEnd(r, t, o)
  \/ \E r \in R : V2_HeadUnlock(r)
  \/ \E r \in R : V2_Return(r)
  \/ CutBegin
  \/ CutLockHead
  \/ CutHead
  \/ CompleteBegin
  \/ Complete

\* one request with all its inputs, next to the writer
Next == Step(Single, Inputs)

\* NReq requests side by side, next to the writer: every operation, with
\* fewer inputs and no cancellation by the caller
NextConc ==
  \/ \E r \in Reqs, req \in FewInputs.search : StartSearch(r, req)
  \/ \E r \in Reqs, req \in FewInputs.tags : StartSearchTags(r, req)
  \/ \E r \in Reqs, req \in FewInputs.tags : StartSearchTagsV2(r, req)
  \/ \E r \in Reqs, req \in FewInputs.tagValues : StartSearchTagValues(r, req)
  \/ \E r \in Reqs, req \in FewInputs.tagValuesV2 : StartSearchTagValuesV2(r, req)
  \/ \E r \in Reqs : AcquireHead(r)
  \/ \E r \in Reqs, o \in FewInputs.searchOut : Search_Head(r, o)
  \/ \E r \in Reqs : Search_AcquireBlocks(r)
  \/ \E r \in Reqs, b \in BlockIDs, o \in FewInputs.searchOut : Search_Task(r, b, o)
  \/ \E r \in Reqs : Search_Return(r)
  \/ \E r \in Reqs : \E o \in SeqOutcomes(r, FewInputs) : Seq_Head(r, o)
  \/ \E r \in Reqs : Seq_HeadErr(r)
  \/ \E r \in Reqs : Seq_AcquireBlocks(r)
  \/ \E r \in Reqs : \E o \in SeqOutcomes(r, FewInputs) : Seq_Block(r, o)
  \/ \E r \in Reqs : Seq_Return(r)
  \/ \E r \in Reqs : V2_Head(r)
  \/ \E r \in Reqs : V2_AcquireBlocks(r)
  \/ \E r \in Reqs, t \in TaskIDs : V2_TaskBegin(r, t)
  \/ \E r \in Reqs, t \in TaskIDs, o \in FewInputs.valuesOut : V2_TaskEnd(r, t, o)
  \/ \E r \in Reqs : V2_HeadUnlock(r)
  \/ \E r \in Reqs : V2_Return(r)
  \/ CutBegin
  \/ CutLockHead
  \/ CutHead
  \/ CompleteBegin
  \/ Complete

Spec == Init /\ [][Next]_vars

SpecConc == InitConc /\ [][NextConc]_vars

(* ------------------------------ properties ----------------------------- *)

Returned(r) == pc[r] = "returned"

\* the positions of a lock event in the log of a request
Events(r, e) == {i \in 1 .. Len(lockLog[r]) : lockLog[r][i] = e}

\* whether the request held the lock just before event i of its log
HeldAt(r, lock, i) ==
  \E j \in Events(r, <<"acquire", lock>>) :
    /\ j < i
    /\ \A k \in Events(r, <<"release", lock>>) : k < j \/ k >= i

\* C1: every operation acquires headBlockMtx before blocksMtx: an operation that
\* waits for headBlockMtx does not hold blocksMtx, every acquisition of blocksMtx
\* follows the acquisition of headBlockMtx, and headBlockMtx is never acquired
\* after blocksMtx.
LockOrder ==
  \A r \in Reqs :
    /\ pc[r] = "lockHead" => "blocks" \notin held[r]
    /\ \A i \in Events(r, <<"acquire", "blocks">>) :
         /\ \E j \in Events(r, <<"acquire", "head">>) : j < i
         /\ \A j \in Events(r, <<"acquire", "head">>) : j < i

\* C1 witness: SearchTagValuesV2 has acquired headBlockMtx, then blocksMtx, and
\* holds both.
LockOrderWitness ==
  \E r \in Reqs :
    /\ op[r] = "SearchTagValuesV2"
    /\ held[r] = {"head", "blocks"}
    /\ lockLog[r] = << <<"acquire", "head">>, <<"acquire", "blocks">> >>

\* a process that has not finished: the writer inside a rotation, or a request
\* that has not returned
Unfinished ==
  \/ wpc # "idle"
  \/ \E r \in Reqs : pc[r] \notin {"returned", "panicked"}

\* C2: the writer and the search requests never deadlock: as long as a rotation
\* or a request is unfinished and no request has panicked, some step is possible.
NoDeadlock ==
  (Unfinished /\ \A r \in Reqs : pc[r] # "panicked") => ENABLED NextConc

\* C3: once SearchTagValuesV2 has returned, with a response or an error, it
\* holds neither headBlockMtx nor blocksMtx.
V2ReleasesLocks ==
  \A r \in Reqs : (op[r] = "SearchTagValuesV2" /\ Returned(r)) => held[r] = {}

\* C4 as stated: no operation releases headBlockMtx while it holds blocksMtx.
ReverseRelease ==
  \A r \in Reqs :
    \A i \in Events(r, <<"release", "head">>) : ~HeldAt(r, "blocks", i)

\* C4 as amended: only SearchTagValuesV2 holds both locks at once; its head task
\* releases headBlockMtx once it has called wg.Done, before or after the caller
\* releases blocksMtx, and the caller releases blocksMtx only after every task,
\* the head task included, has called wg.Done.
ReleaseDiscipline ==
  \A r \in Reqs :
    /\ held[r] = {"head", "blocks"} => op[r] = "SearchTagValuesV2"
    /\ op[r] = "SearchTagValuesV2" =>
         /\ Events(r, <<"release", "head">>) # {} => tasks[r][HeadTask].st = "done"
         /\ Events(r, <<"release", "blocks">>) # {} => AllDone(r)

\* C4 witness: SearchTagValuesV2 held both locks and its head task released
\* headBlockMtx before the caller released blocksMtx.
ReleaseDisciplineWitness ==
  \E r \in Reqs :
    /\ op[r] = "SearchTagValuesV2"
    /\ Returned(r)
    /\ lockLog[r] = << <<"acquire", "head">>, <<"acquire", "blocks">>,
                       <<"release", "head">>, <<"release", "blocks">> >>

\* C5: a response of Search holds at most max(limit, 20) traces.
TraceSearchLimit ==
  \A r \in Reqs :
    (op[r] = "Search" /\ result[r].kind = "resp") =>
      Cardinality(result[r].traces) <= Max(params[r].limit, DefaultLimit)

\* C5 witness: a block offered 25 traces to a request without a limit and the
\* response holds 20 of them.
TraceSearchLimitWitness ==
  \E r \in Reqs :
    /\ op[r] = "Search" /\ result[r].kind = "resp"
    /\ params[r].limit = 0
    /\ \E t \in TaskIDs : tasks[r][t].out.kind = "ok" /\ Len(tasks[r][t].out.traces) = 25
    /\ Cardinality(result[r].traces) = DefaultLimit

\* the tasks of a request whose Searcher was called
Invoked(r) == {t \in TaskIDs : tasks[r][t].st = "done" /\ tasks[r][t].out.kind # "skipped"}

EmptyResults(r) ==
  CASE op[r] = "Search" -> result[r].traces = {}
    [] op[r] = "SearchTagsV2" ->
         \A x \in result[r].scopes : x.name = ParamScopeIntrinsic
    [] OTHER -> result[r].tagValues = {}

\* C6: when the Searcher of every block answers ErrUnsupported, Search,
\* SearchTagsV2, SearchTagValues and SearchTagValuesV2 return a response, not an
\* error, and the response is empty.
UnsupportedTolerance ==
  \A r \in Reqs :
    ( /\ op[r] \in {"Search", "SearchTagsV2", "SearchTagValues", "SearchTagValuesV2"}
      /\ Returned(r)
      /\ Invoked(r) # {}
      /\ \A t \in Invoked(r) : tasks[r][t].out.kind = "unsupported" )
    => (result[r].kind = "resp" /\ EmptyResults(r))

\* C7: in Search and SearchTagValuesV2 a context.Canceled of a task is never
\* stored in the error slot and never returned to the caller.
CancellationTolerance ==
  \A r \in Reqs :
    op[r] \in {"Search", "SearchTagValuesV2"} =>
      /\ anyErr[r].kind # "canceled"
      /\ result[r].kind = "err" => result[r].err.kind # "canceled"

\* scenario A: limit 2, no time window, the head block answers T1, T2, T3 with
\* 3 inspected traces, and the registry holds one complete block
ScenarioA(r) ==
  /\ op[r] = "Search" /\ Returned(r)
  /\ params[r].limit = 2 /\ params[r].start = 0
  /\ tasks[r][HeadTask].out = Response(<<1, 2, 3>>, [it |-> 3, ib |-> 30])
  /\ Len(completeBlocks) = 1 /\ completingBlocks = << >>

\* C8 as stated: in scenario A the response holds T1, T2 and inspectedTraces is
\* 5, the complete block's 2 inspected traces included.
ScenarioACoversAllBlocks ==
  \A r \in Reqs :
    ScenarioA(r) =>
      /\ result[r].kind = "resp"
      /\ result[r].traces = {1, 2}
      /\ result[r].metrics.it = 5

\* C8 as amended: in scenario A the response holds T1, T2 and inspectedTraces is
\* 3: the head block fills the limit, Search returns and no task is started for
\* the complete block.
ScenarioAHeadOnly ==
  \A r \in Reqs :
    ScenarioA(r) =>
      /\ result[r].kind = "resp"
      /\ result[r].traces = {1, 2}
      /\ result[r].metrics.it = 3
      /\ \A t \in BlockIDs : tasks[r][t].st = "none"

\* C8 witness: scenario A has run.
ScenarioAWitness == \E r \in Reqs : ScenarioA(r)

\* the sum of the metrics of the responses the tasks in T returned
RECURSIVE SumMetrics(_, _)
SumMetrics(r, T) ==
  IF T = {} THEN ZeroMetrics
  ELSE LET t == CHOOSE x \in T : TRUE
           o == tasks[r][t].out
       IN  IF o.kind = "ok" THEN addMetrics(SumMetrics(r, T \ {t}), o)
           ELSE SumMetrics(r, T \ {t})

\* C9: the metrics of a response of Search are the sums of the metrics of the
\* tasks that returned a response.
MetricsAdditivity ==
  \A r \in Reqs :
    (op[r] = "Search" /\ result[r].kind = "resp") =>
      result[r].metrics = SumMetrics(r, TaskIDs)

\* C9 witness: a task merged its metrics after the combiner was full: the
\* response holds the 2 traces of the limit and the metrics of two tasks.
MetricsAdditivityWitness ==
  \E r \in Reqs :
    /\ op[r] = "Search" /\ result[r].kind = "resp"
    /\ params[r].limit = 2
    /\ \E t, u \in BlockIDs :
         /\ t # u
         /\ tasks[r][t].out = Response(<<1, 2, 3>>, [it |-> 3, ib |-> 30])
         /\ tasks[r][u].out = Response(<<3, 4>>, [it |-> 2, ib |-> 20])
    /\ result[r].traces = {1, 2}
    /\ result[r].metrics.it = 5

FatalTasks(r) == {t \in TaskIDs : tasks[r][t].st = "done" /\ tasks[r][t].out.kind = "fatal"}

\* the tasks of a request that are started and have not called wg.Done
Running(r) == {t \in TaskIDs : tasks[r][t].st \in {"sched", "running"}}

\* C10 as stated: once Search has returned, the error of every task that failed
\* with a fatal error is what it returned; and no task is running unless the
\* operation waits for it holding blocksMtx.
FatalErrorReturned ==
  \A r \in Reqs :
    op[r] = "Search" =>
      /\ Returned(r) =>
           \A t \in FatalTasks(r) :
             result[r] = ErrResult(WrapErr("fatal", tasks[r][t].block))
      /\ Running(r) # {} => (pc[r] = "wait" /\ "blocks" \in held[r])

\* C10 as amended: once Search has returned and a task failed with a fatal
\* error, it returned an error and no response: the error in the error slot,
\* which is the error of a task that failed (the last one stored when several
\* failed); and no task is running unless the operation waits for it holding
\* blocksMtx.
FatalErrorLatched ==
  \A r \in Reqs :
    op[r] = "Search" =>
      /\ (Returned(r) /\ FatalTasks(r) # {}) =>
           /\ result[r] = ErrResult(anyErr[r])
           /\ \E t \in FatalTasks(r) : anyErr[r] = WrapErr("fatal", tasks[r][t].block)
      /\ Running(r) # {} => (pc[r] = "wait" /\ "blocks" \in held[r])

\* C10 witness: scenario D, two block tasks, one failed, the other returned a
\* response, and Search returned the error.
FatalErrorWitness ==
  \E r \in Reqs :
    /\ op[r] = "Search" /\ Returned(r)
    /\ \E t, u \in BlockIDs :
         /\ tasks[r][t].out.kind = "fatal"
         /\ tasks[r][u].out.kind = "ok"
    /\ result[r].kind = "err"

\* C11: SearchTagValuesV2 asked, by a tenant, for the values of trace:id, span:id
\* or a link id has returned an empty response and no error; it has acquired
\* neither headBlockMtx nor blocksMtx and started no task, so that no Searcher
\* was called.
IntrinsicIDSuppression ==
  \A r \in Reqs :
    ( /\ op[r] = "SearchTagValuesV2"
      /\ params[r].hasOrg
      /\ params[r].tagName \in {"trace:id", "span:id", "link:traceID", "link:spanID"} )
    => /\ Returned(r)
       /\ result[r] = [kind |-> "resp", tagValues |-> {}]
       /\ lockLog[r] = << >>
       /\ held[r] = {}
       /\ \A t \in TaskIDs : tasks[r][t].st = "none"

\* C11 witness: SearchTagValuesV2 has answered a request for link:spanID.
IntrinsicIDSuppressionWitness ==
  \E r \in Reqs :
    /\ op[r] = "SearchTagValuesV2" /\ Returned(r)
    /\ params[r].tagName = "link:spanID"
    /\ result[r].kind = "resp"

\* the tag names the Searchers of a request reported
BlockTags(r) ==
  UNION { {v[2] : v \in SeqToSet(tasks[r][t].out.vals)} : t \in Invoked(r) }

\* C12 as stated: whatever the caller's scope, the tag names SearchTags returns
\* hold no intrinsic tag name, apart from names the blocks reported themselves.
FlatNeverIntrinsic ==
  \A r \in Reqs :
    (op[r] = "SearchTags" /\ result[r].kind = "resp") =>
      (result[r].tagNames \cap IntrinsicTags) \subseteq BlockTags(r)

\* C12 as amended: with an empty or an attribute scope the tag names SearchTags
\* returns hold no intrinsic tag name, apart from names the blocks reported
\* themselves; with the scope "intrinsic" SearchTags returns the intrinsic tag
\* names, all of them and nothing else, without searching a block.
FlatIntrinsicOnRequest ==
  \A r \in Reqs :
    (op[r] = "SearchTags" /\ result[r].kind = "resp") =>
      IF params[r].scope = "intrinsic"
        THEN /\ result[r].tagNames = IntrinsicTags
             /\ lockLog[r] = << >>
             /\ \A t \in TaskIDs : tasks[r][t].st = "none"
        ELSE (result[r].tagNames \cap IntrinsicTags) \subseteq BlockTags(r)

\* C12 witness: SearchTags with an empty scope has searched blocks and returned
\* tag names without the intrinsic "duration"; the v2 response it flattens holds
\* the intrinsic scope.
FlatIntrinsicWitness ==
  \E r \in Reqs :
    /\ op[r] = "SearchTags" /\ Returned(r) /\ result[r].kind = "resp"
    /\ params[r].scope = ""
    /\ Invoked(r) # {}
    /\ result[r].tagNames # {}
    /\ "duration" \notin result[r].tagNames
    /\ \E x \in V2Scopes(collector[r], "none") : x.name = "intrinsic"

\* the tasks of completing and complete blocks that are started and have not
\* called wg.Done
BlockTasksRunning(r) == {t \in BlockIDs : tasks[r][t].st \in {"sched", "running"}}

\* C13: while a task of a completing or complete block is started and not
\* finished, or a sequential traversal is between two such blocks, the request
\* holds blocksMtx in shared mode: no writer holds it, neither rotation step can
\* change completingBlocks or completeBlocks, and the blocks of the running tasks
\* are still where they were when the tasks were started.
BlocksLockCoversTasks ==
  \A r \in Reqs :
    (BlockTasksRunning(r) # {} \/ (op[r] \in SeqOps /\ pc[r] = "blocks")) =>
      /\ "blocks" \in held[r]
      /\ blocksMtx.readers >= 1
      /\ ~blocksMtx.writer
      /\ ~ENABLED CutHead
      /\ ~ENABLED Complete
      /\ \A t \in BlockTasksRunning(r) :
           /\ tasks[r][t].block = t
           /\ RoleOf(t) = tasks[r][t].role

\* C13 witness: a block task of SearchTagValuesV2 runs while the writer waits
\* for blocksMtx in exclusive mode.
BlocksLockCoversTasksWitness ==
  \E r \in Reqs :
    /\ op[r] = "SearchTagValuesV2"
    /\ \E t \in BlockIDs : tasks[r][t].st = "running"
    /\ blocksMtx.pending
    /\ wpc \in {"lockBlocks", "lockComplete"}

\* the limit of a Search request
Limit(r) == IF params[r].limit = 0 THEN 20 ELSE params[r].limit

\* the distinct traces the Searchers of a request returned
HeldTraces(r) ==
  UNION { SeqToSet(tasks[r][t].out.traces) :
            t \in {u \in Invoked(r) : tasks[r][u].out.kind = "ok"} }

ScenarioBState ==
  \A r \in Reqs :
    op[r] = "Search" =>
      /\ ( /\ Returned(r)
           /\ \A t \in Invoked(r) : tasks[r][t].out.kind \in {"ok", "nil"}
           /\ Cardinality(HeldTraces(r)) >= Limit(r) )
         => /\ result[r].kind = "resp"
            /\ Cardinality(result[r].traces) = Limit(r)
            /\ result[r].traces = combiner[r]
            /\ result[r].traces \subseteq HeldTraces(r)
      /\ Count(combiner[r]) >= Limit(r) => cancelled[r]

ScenarioBStep ==
  \A r \in Reqs : op[r] = "Search" => combiner[r] \subseteq combiner'[r]

\* C14: when no Searcher of a Search request returned an error and the Searchers
\* returned at least maxResults distinct traces, the response holds exactly
\* maxResults traces; as soon as the combiner holds maxResults traces the shared
\* context is cancelled; and no step takes a trace out of the combiner.
ScenarioBExact == []ScenarioBState /\ [][ScenarioBStep]_vars

\* C14 witness: limit 2; the head block returned T5, a block task returned
\* T1, T2, T3: the response holds T5, merged first, and T1.
ScenarioBWitness ==
  \E r \in Reqs :
    /\ op[r] = "Search" /\ Returned(r)
    /\ params[r].limit = 2
    /\ tasks[r][HeadTask].out = Response(<<5>>, NoMetrics)
    /\ \E t \in BlockIDs : tasks[r][t].out = Response(<<1, 2, 3>>, [it |-> 3, ib |-> 30])
    /\ result[r].kind = "resp"
    /\ result[r].traces = {5, 1}
    /\ cancelled[r]

\* the tasks of a request that have called or are calling their Searcher
Called(r) ==
  {t \in TaskIDs : \/ tasks[r][t].st = "running"
                   \/ tasks[r][t].st = "done" /\ tasks[r][t].out.kind # "skipped"}

\* C15: with MaxBlocksPerTagValuesQuery = N > 0, SearchTagValues and
\* SearchTagValuesV2 call the Searcher of at most N blocks; the blocks beyond
\* the cap are skipped without an error: an error the operation returns is the
\* error of a Searcher that was called.
BlockCap ==
  \A r \in Reqs :
    ( /\ op[r] \in {"SearchTagValues", "SearchTagValuesV2"}
      /\ params[r].hasOrg
      /\ params[r].maxBlocksLimit > 0 )
    => /\ Cardinality(Called(r)) <= params[r].maxBlocksLimit
       /\ (Returned(r) /\ result[r].kind = "err") =>
            \E t \in Called(r) : tasks[r][t].out.kind \notin {"ok", "none"}

\* C15 witness: SearchTagValuesV2 with a cap of 1 block and two tasks: one
\* called its Searcher, the other was skipped, and a response was returned.
BlockCapWitness ==
  \E r \in Reqs :
    /\ op[r] = "SearchTagValuesV2" /\ Returned(r)
    /\ params[r].maxBlocksLimit = 1
    /\ \E t, u \in TaskIDs :
         /\ tasks[r][t].out.kind = "ok"
         /\ tasks[r][u].out.kind = "skipped"
    /\ result[r].kind = "resp"

V2ErrorLatchState ==
  \A r \in Reqs :
    (op[r] = "SearchTagValuesV2" /\ Returned(r) /\ anyErr[r] # NoErr) =>
      /\ result[r] = ErrResult(anyErr[r])
      /\ AllDone(r)

V2ErrorLatchStep ==
  \A r \in Reqs :
    (op[r] = "SearchTagValuesV2" /\ anyErr[r] # NoErr) =>
      /\ anyErr'[r] # NoErr
      /\ \A t \in TaskIDs :
           tasks[r][t].st = "sched" =>
             \/ tasks'[r][t] = tasks[r][t]
             \/ tasks'[r][t] = [tasks[r][t] EXCEPT !.st = "done",
                                                   !.out = [kind |-> "skipped"]]

\* C16: in SearchTagValuesV2, once the error slot holds an error, a task that
\* makes its check finishes without calling its Searcher, no step empties the
\* slot, and the operation returns the error of the slot, and no response, after
\* every task has finished.
V2ErrorLatch == []V2ErrorLatchState /\ [][V2ErrorLatchStep]_vars

\* C16 witness: without a block cap, one task failed with a fatal error, another
\* made its check afterwards and was skipped, and the operation returned the
\* error.
V2ErrorLatchWitness ==
  \E r \in Reqs :
    /\ op[r] = "SearchTagValuesV2" /\ Returned(r)
    /\ params[r].maxBlocksLimit = 0
    /\ \E t, u \in TaskIDs :
         /\ tasks[r][t].out.kind = "fatal"
         /\ tasks[r][u].out.kind = "skipped"
    /\ result[r].kind = "err"

\* whether the request has acquired blocksMtx
AcquiredBlocks(r) == Events(r, <<"acquire", "blocks">>) # {}

\* what a task of a traversal that went on returned
Tolerated == {"ok", "unsupported", "skipped"}

\* C17: SearchTagValues visits the head block, then completingBlocks in order,
\* then completeBlocks in order: the blocks visited are a prefix of that
\* sequence; a visited block that did not end the traversal returned no error or
\* ErrUnsupported; the first other error ends the traversal: the blocks after it
\* are not visited, and the operation returns that error holding no lock.
SequentialTraversal ==
  \A r \in Reqs :
    (op[r] = "SearchTagValues" /\ params[r].hasOrg) =>
      /\ pc[r] \in {"lockHead", "head"} => \A t \in TaskIDs : tasks[r][t].st = "none"
      /\ pc[r] \notin {"lockHead", "head"} => tasks[r][HeadTask].st = "done"
      /\ ~AcquiredBlocks(r) => \A b \in BlockIDs : tasks[r][b].st = "none"
      /\ (pc[r] = "headErr" \/ (Returned(r) /\ ~AcquiredBlocks(r))) =>
           /\ tasks[r][HeadTask].out.kind \notin Tolerated
           /\ held[r] = {}
           /\ Returned(r) =>
                /\ result[r].kind = "err"
                /\ result[r].err.kind = tasks[r][HeadTask].out.kind
      /\ AcquiredBlocks(r) => tasks[r][HeadTask].out.kind \in Tolerated
      /\ pc[r] = "blocks" =>
           LET all == completingBlocks \o completeBlocks
               k   == Len(all) - Len(todo[r])
           IN  /\ k >= 0
               /\ todo[r] = SubSeq(all, k + 1, Len(all))
               /\ \A i \in 1 .. Len(all) :
                    IF i <= k
                      THEN /\ tasks[r][all[i]].st = "done"
                           /\ tasks[r][all[i]].out.kind \in Tolerated
                      ELSE tasks[r][all[i]].st = "none"
      /\ (Returned(r) /\ AcquiredBlocks(r)) =>
           /\ held[r] = {}
           /\ result[r].kind = "resp" => todo[r] = << >>
           /\ result[r].kind = "err" =>
                /\ todo[r] # << >>
                /\ tasks[r][Head(todo[r])].out.kind \notin Tolerated
                /\ result[r].err = WrapErr(tasks[r][Head(todo[r])].out.kind, Head(todo[r]))
                /\ \A i \in 2 .. Len(todo[r]) : tasks[r][todo[r][i]].st = "none"
           /\ \A b \in BlockIDs :
                (tasks[r][b].st = "done" /\ (todo[r] = << >> \/ b # Head(todo[r]))) =>
                  tasks[r][b].out.kind \in Tolerated

\* C17 witness: the head block answered ErrUnsupported, the first of two
\* completing or complete blocks failed, the second was not visited, and the
\* operation returned the error.
SequentialTraversalWitness ==
  \E r \in Reqs :
    /\ op[r] = "SearchTagValues" /\ Returned(r)
    /\ tasks[r][HeadTask].out.kind = "unsupported"
    /\ Len(todo[r]) = 2
    /\ tasks[r][todo[r][1]].out.kind = "fatal"
    /\ tasks[r][todo[r][2]].st = "none"
    /\ result[r].kind = "err"

\* C18: wherever an operation reads headBlock (to search the head block, to
\* start or run the head task, to name the head block in an error) it holds
\* headBlockMtx in shared mode.
HeadReadUnderLock ==
  \A r \in Reqs :
    (pc[r] \in {"head", "headErr"} \/ tasks[r][HeadTask].st \in {"sched", "running"})
      => "head" \in held[r]

\* C19: in Search, when the head block's Searcher failed with a fatal error, or
\* returned at least maxResults distinct traces, the operation has returned: it
\* acquired and released headBlockMtx and nothing else, and started no task for
\* a completing or complete block.
HeadShortCircuit ==
  \A r \in Reqs :
    ( /\ op[r] = "Search"
      /\ tasks[r][HeadTask].st = "done"
      /\ \/ tasks[r][HeadTask].out.kind = "fatal"
         \/ /\ tasks[r][HeadTask].out.kind = "ok"
            /\ Cardinality(SeqToSet(tasks[r][HeadTask].out.traces)) >= Limit(r) )
    => /\ Returned(r)
       /\ lockLog[r] = << <<"acquire", "head">>, <<"release", "head">> >>
       /\ held[r] = {}
       /\ \A b \in BlockIDs : tasks[r][b].st = "none"
       /\ result[r].kind =
            IF tasks[r][HeadTask].out.kind = "fatal" THEN "err" ELSE "resp"

\* C19 witness: the head block failed with a fatal error while the registry held
\* a complete block inside the request's time window, and Search returned the
\* error.
HeadShortCircuitWitness ==
  \E r \in Reqs :
    /\ op[r] = "Search" /\ Returned(r)
    /\ tasks[r][HeadTask].out.kind = "fatal"
    /\ \E b \in SeqToSet(completeBlocks) : includeBlock(BlockMeta(b), params[r])
    /\ result[r].kind = "err"

\* C20: in every state of a Search request the metadata combiner holds at most
\* maxResults traces (the request's limit, or 20 when the limit is 0).
CombinerBound ==
  \A r \in Reqs : op[r] = "Search" => Count(combiner[r]) <= Limit(r)

\* C20 witness: with limit 2 the combiner is full while Search waits for its
\* tasks, and a task that returned T3, T4 afterwards added nothing.
CombinerBoundWitness ==
  \E r \in Reqs :
    /\ op[r] = "Search" /\ pc[r] = "wait"
    /\ params[r].limit = 2
    /\ Count(combiner[r]) = 2
    /\ \E t \in BlockIDs :
         /\ tasks[r][t].out = Response(<<3, 4>>, [it |-> 2, ib |-> 20])
         /\ combiner[r] \cap {3, 4} = {}

====
